---- MODULE Spec2Model ----
(***************************************************************************)
(* A model of the people-parse repository:                                 *)
(*   - the /api/search handler (src/app.py) driving the two-phase          *)
(*     CoreSignalClient.search_person protocol (src/api/coresignal.py);    *)
(*   - ExaSearchClient.search_profiles (src/api/exa_search.py);            *)
(*   - the pure normalisation functions of CoreSignalClient.               *)
(* Python strings that are trimmed or lower-cased are sequences of         *)
(* one-character strings; Python None is NULL.                             *)
(***************************************************************************)
EXTENDS Integers, Sequences, FiniteSets, TLC

\* ------------------------------------------------------------------------
\* Bounds of the model
\* ------------------------------------------------------------------------
MaxNameLen == 2
MaxIds == 2
MaxLimit == 2
MaxSpans == 2
MaxEntries == 2
MaxRecords == 2
MaxHits == 2

\* ------------------------------------------------------------------------
\* Python values: None, str, int, list and dict are tagged records, so that
\* a value of any type can stand where the vendor's JSON puts it
\* ------------------------------------------------------------------------
NULL == [t |-> "null"]
PyStr(s) == [t |-> "str", v |-> s]
PyInt(n) == [t |-> "int", v |-> n]
PyList(s) == [t |-> "list", v |-> s]

PyBool(b) == [t |-> "bool", v |-> b]
PyDict(f) == [t |-> "dict", v |-> f]

IsStr(x) == x.t = "str"
IsList(x) == x.t = "list"
IsDict(x) == x.t = "dict"

\* bool(x)
Truthy(x) ==
  CASE x.t = "null" -> FALSE
    [] x.t = "str" -> x.v # <<>>
    [] x.t = "int" -> x.v # 0
    [] x.t = "list" -> x.v # <<>>
    [] x.t = "bool" -> x.v
    [] x.t = "dict" -> DOMAIN x.v # {}
    [] OTHER -> TRUE

\* a or b
Or(a, b) == IF Truthy(a) THEN a ELSE b

\* d.get(key) and d.get(key, default) on a dict
Get(d, key) == IF key \in DOMAIN d.v THEN d.v[key] ELSE NULL
GetOr(d, key, default) == IF key \in DOMAIN d.v THEN d.v[key] ELSE default

\* an exception leaving a function
Raised(exc) == [t |-> "raise", exc |-> exc]
IsRaised(x) == x.t = "raise"

SPACE == " "
NameChars == {SPACE, "a"}

RECURSIVE SeqsUpTo(_, _)
SeqsUpTo(S, n) ==
  IF n = 0 THEN {<<>>}
  ELSE LET shorter == SeqsUpTo(S, n - 1)
       IN shorter \cup {Append(s, c) : s \in {t \in shorter : Len(t) = n - 1}, c \in S}

Names == {PyStr(s) : s \in SeqsUpTo(NameChars, MaxNameLen)}
Companies == {NULL, PyStr(<<>>), PyStr(<<"c">>)}
Limits == (0 - 1) .. MaxLimit

\* str.strip() and str.lstrip(): drop leading and trailing whitespace
RECURSIVE lstrip(_)
lstrip(s) == IF s # <<>> /\ Head(s) = SPACE THEN lstrip(Tail(s)) ELSE s

RECURSIVE rstrip(_)
rstrip(s) ==
  IF s # <<>> /\ s[Len(s)] = SPACE THEN rstrip(SubSeq(s, 1, Len(s) - 1)) ELSE s

\* a strip() that was left out
Untrimmed(s) == s

strip(s) == rstrip(lstrip(s))

\* ------------------------------------------------------------------------
\* Vendor responses
\* ------------------------------------------------------------------------
ErrorCodes == {401, 422, 500}

IdLists == {[i \in 1 .. n |-> i] : n \in 0 .. MaxIds}

\* the JSON body of a 2xx answer of the search endpoint: an array of
\* identifiers, some other JSON value, or bytes that are not JSON
NonList == [t |-> "dict"]
Undecodable == [t |-> "undecodable"]
SearchBodies == {PyList(ids) : ids \in IdLists} \cup {NonList, Undecodable}

SearchResponses ==
  {[kind |-> "transport"]}
    \cup {[kind |-> "status", code |-> c] : c \in ErrorCodes}
    \cup {[kind |-> "ok", body |-> b] : b \in SearchBodies}

\* how a collection call ends: an exception, or the JSON body of a 2xx answer
FetchFailures == {"transport", "status", "undecodable"}

\* exceptions
HTTPError(resp) ==
  IF resp.kind = "status"
    THEN [type |-> "HTTPStatusError", status_code |-> PyInt(resp.code)]
    ELSE [type |-> "RequestError", status_code |-> NULL]
ValueError == [type |-> "ValueError", status_code |-> NULL]
IsHTTPError(e) == e.type \in {"HTTPStatusError", "RequestError"}

\* ------------------------------------------------------------------------
\* CoreSignalClient helpers
\* ------------------------------------------------------------------------
CompanyKeys == {"company_name", "company"}

PayloadFor(key, nm, comp) ==
  IF Truthy(comp)
    THEN [k \in {key, "company_name"} |-> IF k = key THEN nm ELSE comp]
    ELSE [k \in {key} |-> nm]

_build_search_payloads(nm, comp) ==
  <<PayloadFor("full_name", nm, comp), PayloadFor("title", nm, comp)>>

HasCompanyFilter(payload) == DOMAIN payload \cap CompanyKeys # {}

StrippedPayload(payload) ==
  [k \in DOMAIN payload \ CompanyKeys |-> payload[k]]

\* a retry condition that forgets to look for the company filter
ShouldRetryAny422(resp, payload) ==
  /\ resp.kind = "status"
  /\ resp.code = 422

\* the condition of the except branch of _search_employee_ids
ShouldRetry(resp, payload) ==
  /\ resp.kind = "status"
  /\ resp.code = 422
  /\ HasCompanyFilter(payload)

\* parse_ids on a decodable body
parse_ids(body) == IF IsList(body) THEN body.v ELSE <<>>

\* list[:limit]
Max(a, b) == IF a >= b THEN a ELSE b
Min(a, b) == IF a <= b THEN a ELSE b
SliceTo(s, lim) ==
  IF lim >= 0 THEN SubSeq(s, 1, Min(lim, Len(s)))
  ELSE SubSeq(s, 1, Max(0, Len(s) + lim))

\* ------------------------------------------------------------------------
\* Dates.  A date string is a sequence of atoms: a zero-padded number, "-",
\* "Z", a blank or any other text; a datetime is a naive calendar date.
\* ------------------------------------------------------------------------
ModelYears == {1, 2020, 2021}

Pad2(n) == IF n < 10 THEN "0" \o ToString(n) ELSE ToString(n)
Pad4(n) ==
  IF n < 10 THEN "000" \o ToString(n)
  ELSE IF n < 100 THEN "00" \o ToString(n)
  ELSE IF n < 1000 THEN "0" \o ToString(n)
  ELSE ToString(n)

Datetime(y, m, d) == [t |-> "datetime", y |-> y, m |-> m, d |-> d]
DatetimeMin == Datetime(1, 1, 1)

\* a < b on datetimes
DateLt(a, b) ==
  \/ a.y < b.y
  \/ a.y = b.y /\ a.m < b.m
  \/ a.y = b.y /\ a.m = b.m /\ a.d < b.d

IsLeap(y) == (y % 4 = 0 /\ y % 100 # 0) \/ y % 400 = 0
DaysIn(y, m) ==
  IF m = 2 THEN (IF IsLeap(y) THEN 29 ELSE 28)
  ELSE IF m \in {4, 6, 9, 11} THEN 30 ELSE 31

\* the numbers the atoms spell
YearNumbers ==
  [a \in {Pad4(n) : n \in ModelYears} |-> CHOOSE n \in ModelYears : Pad4(n) = a]
TwoDigitNumbers ==
  [a \in {Pad2(n) : n \in 1 .. 31} |-> CHOOSE n \in 1 .. 31 : Pad2(n) = a]

\* the number an atom spells, or 0 when it spells none of the range
NumberOf(atom, range, width) ==
  LET table == IF width = 4 THEN YearNumbers ELSE TwoDigitNumbers
  IN IF atom \in DOMAIN table /\ table[atom] \in range THEN table[atom] ELSE 0

\* datetime.strptime against "%Y-%m-%d", "%Y-%m", "%Y" in that order; the
\* strings fromisoformat accepts beyond these are not built from the atoms
strptime(atoms) ==
  LET n == Len(atoms)
      y == IF n >= 1 THEN NumberOf(atoms[1], ModelYears, 4) ELSE 0
      m == IF n >= 3 THEN NumberOf(atoms[3], 1 .. 12, 2) ELSE 0
      d == IF n >= 5 /\ m > 0 /\ y > 0
             THEN NumberOf(atoms[5], 1 .. DaysIn(y, m), 2) ELSE 0
  IN IF n = 5 /\ atoms[2] = "-" /\ atoms[4] = "-" /\ y > 0 /\ m > 0 /\ d > 0
       THEN Datetime(y, m, d)
     ELSE IF n = 3 /\ atoms[2] = "-" /\ y > 0 /\ m > 0
       THEN Datetime(y, m, 1)
     ELSE IF n = 1 /\ y > 0
       THEN Datetime(y, 1, 1)
     ELSE NULL

\* clean_value[:-1] when the value ends with "Z"
WithoutZ(clean_value) ==
  IF clean_value # <<>> /\ clean_value[Len(clean_value)] = "Z"
    THEN SubSeq(clean_value, 1, Len(clean_value) - 1)
    ELSE clean_value

_parse_date(date_value) ==
  IF ~Truthy(date_value) THEN NULL
  ELSE IF date_value.t = "datetime" THEN date_value
  ELSE IF IsStr(date_value) THEN strptime(WithoutZ(strip(date_value.v)))
  ELSE NULL

MonthAbbr ==
  <<"Jan", "Feb", "Mar", "Apr", "May", "Jun",
    "Jul", "Aug", "Sep", "Oct", "Nov", "Dec">>

\* dt.strftime("%b %Y")
_format_month_year(dt) ==
  IF ~Truthy(dt) THEN <<>> ELSE <<MonthAbbr[dt.m], SPACE, ToString(dt.y)>>

\* the return statements of _format_date_range
JoinRange(start_str, end_str) ==
  IF start_str # <<>> /\ end_str # <<>>
    THEN start_str \o <<SPACE, "-", SPACE>> \o end_str
  ELSE IF start_str # <<>> THEN start_str
  ELSE end_str

StartStr(start_dt) ==
  IF Truthy(start_dt) THEN _format_month_year(start_dt) ELSE <<>>

EndStr(end_dt, is_current) ==
  IF is_current \/ ~Truthy(end_dt) THEN <<"Present">> ELSE _format_month_year(end_dt)

_format_date_range(date_from, date_to, is_current) ==
  JoinRange(StartStr(_parse_date(date_from)),
            EndStr(IF is_current THEN NULL ELSE _parse_date(date_to), is_current))

\* str.lower(), atom by atom
UpperAtoms == <<"E", "C", "Present", "Role">> \o MonthAbbr
LowerAtoms ==
  <<"e", "c", "present", "role", "jan", "feb", "mar", "apr", "may", "jun",
    "jul", "aug", "sep", "oct", "nov", "dec">>
LowerTable ==
  [a \in {UpperAtoms[i] : i \in DOMAIN UpperAtoms} |->
     LowerAtoms[CHOOSE i \in DOMAIN UpperAtoms : UpperAtoms[i] = a]]
LowerAtom(a) == IF a \in DOMAIN LowerTable THEN LowerTable[a] ELSE a
lower(s) == [i \in 1 .. Len(s) |-> LowerAtom(s[i])]

\* ------------------------------------------------------------------------
\* CoreSignalClient._compute_experience_months
\* ------------------------------------------------------------------------
\* the while loop: the (year, month) pairs from current to end_month
RECURSIVE MonthWalk(_, _, _, _)
MonthWalk(year, month, end_year, end_month) ==
  IF year < end_year \/ (year = end_year /\ month <= end_month)
    THEN {<<year, month>>}
           \cup (IF month + 1 > 12
                   THEN MonthWalk(year + 1, 1, end_year, end_month)
                   ELSE MonthWalk(year, month + 1, end_year, end_month))
    ELSE {}

\* the months a span adds to month_spans
MonthsOfSpan(start, end) ==
  IF ~Truthy(start) \/ DateLt(end, start) THEN {}
  ELSE MonthWalk(start.y, start.m, end.y, end.m)

\* the months one entry adds to month_spans
SpanMonths(exp, utcnow) ==
  IF ~IsDict(exp) THEN {}
  ELSE MonthsOfSpan(_parse_date(Get(exp, "date_from")),
                    Or(_parse_date(Get(exp, "date_to")), utcnow))

\* a variant that adds up the entries' months instead of collecting them
SummedExperienceMonths(experiences, utcnow) ==
  LET RECURSIVE Sum(_)
      Sum(i) == IF i > Len(experiences) THEN 0
                ELSE Cardinality(SpanMonths(experiences[i], utcnow)) + Sum(i + 1)
  IN Sum(1)

_compute_experience_months(experiences, utcnow) ==
  Cardinality(UNION {SpanMonths(experiences[i], utcnow) : i \in DOMAIN experiences})

\* ------------------------------------------------------------------------
\* CoreSignalClient._format_positions
\* ------------------------------------------------------------------------
Role == PyStr(<<"Role">>)
Empty == PyStr(<<>>)
Present == PyStr(<<"Present">>)

\* exp.get("current") is True or date_to_val in (None, "", "Present") or ...
IsCurrent(current, date_to_val) ==
  \/ current = PyBool(TRUE)
  \/ date_to_val \in {NULL, Empty, Present}
  \/ (IsStr(date_to_val) /\ lower(date_to_val.v) = <<"present">>)

\* the mapping appended for an entry
PositionOf(exp) ==
  [title |-> Or(Or(Get(exp, "title"), Get(exp, "position")), Role),
   company |-> Or(Or(Get(exp, "company_name"), Get(exp, "company")), Empty),
   period |-> PyStr(_format_date_range(Get(exp, "date_from"), Get(exp, "date_to"),
                      IsCurrent(Get(exp, "current"), Get(exp, "date_to")))),
   location |-> Or(Get(exp, "location"), Empty),
   description |-> Or(Get(exp, "description"), Empty),
   _start_dt |-> _parse_date(Get(exp, "date_from"))]

\* (x or "").strip().lower() on a str
Normalized(x) == lower(strip(Or(x, Empty).v))

\* a variant that compares the triple as written, case and blanks included
DedupeKeyAsWritten(pos) ==
  <<Or(pos.title, Empty).v, Or(pos.company, Empty).v, Or(pos.period, Empty).v>>

\* the dedupe key of the title, company and period of an entry
DedupeKey(pos) ==
  <<Normalized(pos.title), Normalized(pos.company), Normalized(pos.period)>>

\* .strip() raises on a value that is not a str
DedupeKeyRaises(pos) ==
  ~IsStr(Or(pos.title, Empty)) \/ ~IsStr(Or(pos.company, Empty))

\* one turn of the for loop on a mapping entry, from the positions and keys
\* so far (or the exception raised) to those after it
AppendPosition(loop, pos, dedupe_key) ==
  IF dedupe_key \in loop.seen_keys THEN loop
  ELSE [loop EXCEPT !.positions = Append(@, pos),
                    !.seen_keys = @ \cup {dedupe_key}]

PositionsStep(loop, exp) ==
  IF loop.raised \/ ~IsDict(exp) THEN loop
  ELSE IF DedupeKeyRaises(PositionOf(exp)) THEN [loop EXCEPT !.raised = TRUE]
  ELSE AppendPosition(loop, PositionOf(exp), DedupeKey(PositionOf(exp)))

RECURSIVE PositionsLoop(_, _, _)
PositionsLoop(experiences, i, loop) ==
  IF i > Len(experiences) THEN loop
  ELSE PositionsLoop(experiences, i + 1, PositionsStep(loop, experiences[i]))

\* key=lambda p: p.get("_start_dt") or datetime.min
SortKey(p) == Or(p._start_dt, DatetimeMin)

\* list.sort(key=..., reverse=True) is stable: entries with equal keys keep
\* their order, and x goes before the first entry with a smaller key
InsertDesc(sorted, x) ==
  LET smaller == {j \in DOMAIN sorted : DateLt(SortKey(sorted[j]), SortKey(x))}
      at == IF smaller = {} THEN Len(sorted) + 1
            ELSE CHOOSE j \in smaller : \A k \in smaller : j <= k
  IN SubSeq(sorted, 1, at - 1) \o <<x>> \o SubSeq(sorted, at, Len(sorted))

RECURSIVE SortDesc(_, _)
SortDesc(positions, sorted) ==
  IF positions = <<>> THEN sorted
  ELSE SortDesc(Tail(positions), InsertDesc(sorted, Head(positions)))

\* pos.pop("_start_dt", None)
PopStart(pos) == [k \in DOMAIN pos \ {"_start_dt"} |-> pos[k]]

PopAll(sorted) == PyList([i \in 1 .. Len(sorted) |-> PopStart(sorted[i])])

SortAndPop(loop) ==
  IF loop.raised THEN Raised("AttributeError")
  ELSE PopAll(SortDesc(loop.positions, <<>>))

_format_positions(experiences) ==
  SortAndPop(PositionsLoop(experiences, 1,
               [positions |-> <<>>, seen_keys |-> {}, raised |-> FALSE]))

\* ------------------------------------------------------------------------
\* CoreSignalClient.extract_profiles
\* ------------------------------------------------------------------------
NA == PyStr(<<"N/A">>)

StartsWithHttp(s) == s # <<>> /\ s[1] \in {"http://", "https://"}

\* url.lstrip('/')
RECURSIVE LStripSlash(_)
LStripSlash(s) == IF s # <<>> /\ Head(s) = "/" THEN LStripSlash(Tail(s)) ELSE s

WithScheme(s) == IF StartsWithHttp(s) THEN s ELSE <<"https://">> \o LStripSlash(s)

\* url.startswith raises on a value that is not a str
NormalizedUrl(url) ==
  IF ~Truthy(url) THEN url
  ELSE IF ~IsStr(url) THEN Raised("AttributeError")
  ELSE PyStr(WithScheme(url.v))

_extract_linkedin_url(profile) ==
  NormalizedUrl(Or(Or(Or(Get(profile, "profile_url"), Get(profile, "linkedin_url")),
                      Get(profile, "url")), Empty))

PhotoKeys ==
  <<"profile_image_url", "profile_picture_url", "picture_url", "avatar",
    "photo_url", "image_url", "picture">>

\* url = url.get("url") or url.get("src") on a mapping
PhotoCandidate(found) ==
  IF IsDict(found) THEN Or(Get(found, "url"), Get(found, "src")) ELSE found

\* whether the loop returns at this key
PhotoUsable(found, url) == Truthy(found) /\ IsStr(url) /\ strip(url.v) # <<>>

RECURSIVE PhotoLoop(_, _)
PhotoLoop(profile, i) ==
  IF i > Len(PhotoKeys) THEN Empty
  ELSE IF PhotoUsable(Get(profile, PhotoKeys[i]),
                      PhotoCandidate(Get(profile, PhotoKeys[i])))
    THEN PyStr(WithScheme(PhotoCandidate(Get(profile, PhotoKeys[i])).v))
  ELSE PhotoLoop(profile, i + 1)

_extract_photo_url(profile) == PhotoLoop(profile, 1)

\* str(x)
StrOf(x) ==
  CASE x.t = "str" -> x
    [] x.t = "int" -> PyStr(<<ToString(x.v)>>)
    [] x.t = "null" -> PyStr(<<"None">>)
    [] x.t = "bool" -> PyStr(<<IF x.v THEN "True" ELSE "False">>)
    [] OTHER -> PyStr(<<"repr">>)

SkillsOf(result) ==
  LET skills_data == GetOr(result, "skills", PyList(<<>>))
  IN IF ~IsList(skills_data) THEN <<>>
     ELSE [i \in 1 .. Len(skills_data.v) |->
             LET skill == skills_data.v[i]
             IN IF IsDict(skill) THEN GetOr(skill, "name", skill) ELSE StrOf(skill)]

RECURSIVE EducationLoop(_, _, _)
EducationLoop(data, i, education_list) ==
  IF i > Len(data) THEN education_list
  ELSE LET edu == data[i] IN
    IF IsDict(edu)
      THEN LET school == GetOr(edu, "school", Empty)
               degree == GetOr(edu, "degree", Empty)
           IN IF Truthy(school) \/ Truthy(degree)
                THEN EducationLoop(data, i + 1,
                       Append(education_list, [school |-> school, degree |-> degree]))
                ELSE EducationLoop(data, i + 1, education_list)
    ELSE IF IsStr(edu)
      THEN EducationLoop(data, i + 1,
             Append(education_list, [school |-> edu, degree |-> Empty]))
    ELSE EducationLoop(data, i + 1, education_list)

EducationOf(result) ==
  LET education_data == GetOr(result, "education", PyList(<<>>))
  IN IF IsList(education_data) THEN EducationLoop(education_data.v, 1, <<>>) ELSE <<>>

\* the profile mapping of one raw record, or the exception raised on the way
BuildProfile(result, experience_entries, raw_summary, linkedin_url, positions, utcnow) ==
  IF experience_entries # <<>> /\ ~IsDict(experience_entries[1])
    THEN Raised("AttributeError")
  ELSE IF IsRaised(linkedin_url) THEN linkedin_url
  ELSE IF IsRaised(positions) THEN positions
  ELSE
    [t |-> "profile",
     name |-> GetOr(result, "full_name", NA),
     title |-> GetOr(result, "headline", NA),
     company |-> IF experience_entries # <<>>
                   THEN GetOr(experience_entries[1], "company_name", NA)
                   ELSE NA,
     location |-> Or(Or(Or(Get(result, "location"), Get(result, "city")),
                        Get(result, "country")), NA),
     experience_months |-> IF experience_entries # <<>>
                             THEN _compute_experience_months(experience_entries, utcnow)
                             ELSE 0,
     skills |-> SkillsOf(result),
     education |-> EducationOf(result),
     linkedin_url |-> linkedin_url,
     summary |-> IF IsStr(raw_summary) THEN PyStr(strip(raw_summary.v)) ELSE Empty,
     positions |-> positions.v,
     photo_url |-> _extract_photo_url(result),
     source |-> Empty]

\* experience if isinstance(experience, list) else []
ExperienceEntries(experience) == IF IsList(experience) THEN experience.v ELSE <<>>

ProfileOfEntries(result, experience_entries, utcnow) ==
  BuildProfile(result, experience_entries,
               Or(Or(Get(result, "summary"), Get(result, "about")), Empty),
               _extract_linkedin_url(result),
               _format_positions(experience_entries), utcnow)

ProfileOf(result, utcnow) ==
  IF ~IsDict(result) THEN Raised("AttributeError")
  ELSE ProfileOfEntries(result,
         ExperienceEntries(GetOr(result, "experience", PyList(<<>>))), utcnow)

\* the for loop over the raw records: the profiles so far, or the exception
ProfilesStep(profiles, profile) ==
  IF IsRaised(profiles) THEN profiles
  ELSE IF IsRaised(profile) THEN profile
  ELSE PyList(Append(profiles.v, profile))

RECURSIVE ProfilesLoop(_, _, _, _)
ProfilesLoop(results_, i, profiles, utcnow) ==
  IF i > Len(results_) THEN profiles
  ELSE ProfilesLoop(results_, i + 1,
                    ProfilesStep(profiles, ProfileOf(results_[i], utcnow)), utcnow)

\* for result in results
IterateResults(results_, utcnow) ==
  IF results_.t \in {"null", "int", "bool"} THEN Raised("TypeError")
  ELSE IF IsStr(results_)
    THEN IF results_.v = <<>> THEN PyList(<<>>) ELSE Raised("AttributeError")
  ELSE IF IsDict(results_)
    THEN IF DOMAIN results_.v = {} THEN PyList(<<>>) ELSE Raised("AttributeError")
  ELSE ProfilesLoop(results_.v, 1, PyList(<<>>), utcnow)

extract_profiles(raw_data, utcnow) ==
  IF "error" \in DOMAIN raw_data.v THEN PyList(<<>>)
  ELSE IterateResults(GetOr(raw_data, "results", PyList(<<>>)), utcnow)

\* ------------------------------------------------------------------------
\* ExaSearchClient
\* ------------------------------------------------------------------------
\* " ".join(parts)
RECURSIVE Join(_)
Join(parts) ==
  IF parts = <<>> THEN <<>>
  ELSE IF Len(parts) = 1 THEN Head(parts)
  ELSE Head(parts) \o <<SPACE>> \o Join(Tail(parts))

_build_query(nm, comp) ==
  Join(<<nm.v>> \o (IF Truthy(comp) THEN <<comp.v>> ELSE <<>>)
         \o <<<<"LinkedIn", SPACE, "profile">>, <<"site:linkedin.com/in">>>>)

\* s.split(sep)[0]: what precedes the first occurrence of sep
RECURSIVE BeforeFirst(_, _, _)
BeforeFirst(s, sep, i) ==
  IF i + Len(sep) - 1 > Len(s) THEN s
  ELSE IF SubSeq(s, i, i + Len(sep) - 1) = sep THEN SubSeq(s, 1, i - 1)
  ELSE BeforeFirst(s, sep, i + 1)

\* (primary.split(" - ")[0] or primary).strip()
FirstPart(primary) ==
  strip(IF BeforeFirst(primary, <<SPACE, "-", SPACE>>, 1) # <<>>
          THEN BeforeFirst(primary, <<SPACE, "-", SPACE>>, 1)
          ELSE primary)

_extract_name(title, fallback) ==
  IF title = <<>> THEN fallback
  ELSE IF FirstPart(strip(BeforeFirst(title, <<"|">>, 1))) # <<>>
    THEN FirstPart(strip(BeforeFirst(title, <<"|">>, 1)))
  ELSE fallback

SnippetKeys == <<"highlight", "snippet", "summary", "text">>

RECURSIVE SnippetLoop(_, _)
SnippetLoop(result, i) ==
  IF i > Len(SnippetKeys) THEN <<>>
  ELSE IF IsStr(Get(result, SnippetKeys[i])) /\ strip(Get(result, SnippetKeys[i]).v) # <<>>
    THEN strip(Get(result, SnippetKeys[i]).v)
  ELSE SnippetLoop(result, i + 1)

_extract_snippet(result) == SnippetLoop(result, 1)

\* the profile of one hit whose title and url are strs
HitProfile(res, title, linkedin_url, fallback_name) ==
  [t |-> "profile",
   name |-> PyStr(_extract_name(title, fallback_name)),
   title |-> PyStr(IF title # <<>> THEN title ELSE <<"LinkedIn", SPACE, "profile">>),
   company |-> Empty,
   location |-> Empty,
   experience_months |-> 0,
   skills |-> <<>>,
   education |-> <<>>,
   linkedin_url |-> PyStr(linkedin_url),
   summary |-> PyStr(_extract_snippet(res)),
   positions |-> <<>>,
   photo_url |-> Empty,
   source |-> PyStr(<<"Exa">>)]

\* one turn of the for loop; res.get and .strip() raise on the wrong type
NormalizeHit(res, fallback_name) ==
  IF ~IsDict(res) THEN Raised("AttributeError")
  ELSE IF ~IsStr(Or(Get(res, "title"), Empty)) \/ ~IsStr(Or(Get(res, "url"), Empty))
    THEN Raised("AttributeError")
  ELSE HitProfile(res, strip(Or(Get(res, "title"), Empty).v),
                  strip(Or(Get(res, "url"), Empty).v), fallback_name)

RECURSIVE NormalizeLoop(_, _, _, _)
NormalizeLoop(hits, i, normalized, fallback_name) ==
  IF i > Len(hits) THEN normalized
  ELSE NormalizeLoop(hits, i + 1,
                     ProfilesStep(normalized, NormalizeHit(hits[i], fallback_name)),
                     fallback_name)

_normalize_results(results_, fallback_name) ==
  IF results_.t \in {"null", "int", "bool"} THEN Raised("TypeError")
  ELSE IF IsStr(results_)
    THEN IF results_.v = <<>> THEN PyList(<<>>) ELSE Raised("AttributeError")
  ELSE IF IsDict(results_)
    THEN IF DOMAIN results_.v = {} THEN PyList(<<>>) ELSE Raised("AttributeError")
  ELSE NormalizeLoop(results_.v, 1, PyList(<<>>), fallback_name)

\* ------------------------------------------------------------------------
\* Vendor data of the model
\* ------------------------------------------------------------------------
YearText(y) == PyStr(<<Pad4(y)>>)
MonthText(y, m) == PyStr(<<Pad4(y), "-", Pad2(m)>>)
DayText(y, m, d) == PyStr(<<Pad4(y), "-", Pad2(m), "-", Pad2(d)>>)
Garbage == PyStr(<<"not-a-date">>)

\* the values datetime.utcnow() may return
Nows == {Datetime(2020, 8, 20), Datetime(2021, 3, 5)}

Job == PyDict([title |-> PyStr(<<"e">>), company_name |-> PyStr(<<"c">>),
               date_from |-> MonthText(2020, 1), date_to |-> MonthText(2020, 6)])

GoodRecord ==
  PyDict([full_name |-> PyStr(<<"a">>), headline |-> PyStr(<<"e">>),
          experience |-> PyList(<<Job>>),
          skills |-> PyList(<<PyStr(<<"s">>), PyDict([name |-> PyStr(<<"s">>)])>>),
          education |-> PyList(<<PyDict([school |-> PyStr(<<"u">>)]), PyStr(<<"u">>)>>),
          profile_url |-> PyStr(<<"linkedin.com/in/a">>),
          summary |-> PyStr(<<SPACE, "text">>),
          location |-> PyStr(<<"city">>)])

\* hits of the secondary vendor, well-formed and not
GoodHit ==
  PyDict([title |-> PyStr(<<"Ann", SPACE, "-", SPACE, "Eng", SPACE, "|", SPACE, "LinkedIn">>),
          url |-> PyStr(<<"https://", "linkedin.com/in/a">>),
          text |-> PyStr(<<"bio", SPACE>>)])

ExaHits ==
  {GoodHit, PyDict(<<>>), PyDict([title |-> NULL, url |-> NULL, text |-> NULL]),
   PyDict([title |-> PyInt(5)]), PyStr(<<"x">>), NULL}

\* the body of a 2xx answer of the secondary vendor
ExaBodies ==
  {Undecodable, PyList(<<>>), PyDict(<<>>), PyDict([results |-> NULL]),
   PyDict([results |-> PyInt(3)])}
    \cup {PyDict([results |-> PyList(hits)]) : hits \in SeqsUpTo(ExaHits, MaxHits)}

ExaResponses ==
  {[kind |-> "transport"]}
    \cup {[kind |-> "status", code |-> c] : c \in ErrorCodes}
    \cup {[kind |-> "ok", body |-> b] : b \in ExaBodies}

MalformedRecord == PyDict([experience |-> PyList(<<PyStr(<<"x">>)>>)])

\* the record the collection endpoint answers for an identifier
RecordFor(id, fields) == PyDict(("id" :> PyInt(id)) @@ fields.v)

FetchOutcomes(id) ==
  {[kind |-> k] : k \in FetchFailures}
    \cup {[kind |-> "ok", body |-> RecordFor(id, r)] : r \in {GoodRecord, MalformedRecord}}

\* ------------------------------------------------------------------------
\* State
\* ------------------------------------------------------------------------
VARIABLES
  client,        \* entry point of the request: "coresignal" or "exa"
  api_key,       \* whether the vendor API key is configured
  name, company, limit,
  pc,
  search_payloads, payload_idx,
  attempt,       \* exchanges of the running _search_employee_ids call
  employee_ids, last_error,
  fetched,       \* phase 2: the collection calls made, [id, outcome]
  results,
  ret,           \* outcome of search_person / search_profiles
  network_calls, \* number of requests issued in this request
  http_status,   \* status of the /api/search response
  input,         \* argument of the normalisation function under check
  now,           \* what datetime.utcnow() returned, once read
  output         \* what the normalisation function returned

reqVars == <<client, api_key, name, company, limit, pc, search_payloads,
             payload_idx, attempt, employee_ids, last_error, fetched, results,
             ret, network_calls, http_status>>
normVars == <<input, output>>
vars == <<reqVars, normVars, now>>

NoRet == [kind |-> "none"]
Return(v) == [kind |-> "return", value |-> v]
Raise(e) == [kind |-> "raise", exc |-> e]

\* no request in progress
ReqIdle ==
  /\ client = "none"
  /\ api_key = FALSE
  /\ name = Empty
  /\ company = NULL
  /\ limit = 0
  /\ pc = "idle"
  /\ search_payloads = <<>>
  /\ payload_idx = 0
  /\ attempt = <<>>
  /\ employee_ids = <<>>
  /\ last_error = NULL
  /\ fetched = <<>>
  /\ results = <<>>
  /\ ret = NoRet
  /\ network_calls = 0
  /\ http_status = NULL

NormIdle == input = NULL /\ output = NULL

\* a request to /api/search, whose model makes name a str, or a call of
\* search_profiles on a constructed client
Init ==
  /\ NormIdle
  /\ now = NULL
  /\ \/ client = "coresignal" /\ api_key \in BOOLEAN /\ name \in Names
     \/ client = "exa" /\ api_key = TRUE /\ name \in Names \cup {NULL}
  /\ company \in Companies
  /\ limit \in Limits
  /\ pc = IF client = "coresignal" THEN "handler" ELSE "exa_start"
  /\ search_payloads = <<>>
  /\ payload_idx = 0
  /\ attempt = <<>>
  /\ employee_ids = <<>>
  /\ last_error = NULL
  /\ fetched = <<>>
  /\ results = <<>>
  /\ ret = NoRet
  /\ network_calls = 0
  /\ http_status = NULL

\* ------------------------------------------------------------------------
\* CoreSignalClient.search_person
\* ------------------------------------------------------------------------
EmptyResult == PyDict([results |-> PyList(<<>>)])

\* the mapping built by the outer except clause
ErrorResult(e) ==
  PyDict([error |-> PyStr(<<e.type>>), status_code |-> e.status_code,
          results |-> PyList(<<>>)])

\* entry: trim the name, return at once on an empty one, else build the
\* payload sequence and enter the payload loop
SearchPersonStart ==
  /\ pc = "start"
  /\ LET nm == PyStr(strip(name.v)) IN
       /\ IF ~Truthy(nm)
            THEN /\ ret' = Return(EmptyResult)
                 /\ pc' = "returned"
                 /\ UNCHANGED <<search_payloads, payload_idx>>
            ELSE /\ search_payloads' = _build_search_payloads(nm, company)
                 /\ payload_idx' = 1
                 /\ pc' = "search"
                 /\ UNCHANGED ret
  /\ UNCHANGED <<client, api_key, name, company, limit, attempt, employee_ids,
                 last_error, fetched, results, network_calls, http_status,
                 normVars, now>>

\* What the payload loop and the code after it do once the call of
\* _search_employee_ids for payload idx has ended, with a list of
\* identifiers (outcome.kind = "ids") or an exception ("exc").
AfterAttempt(idx, n_payloads, lim, prev_error, outcome) ==
  LET escaped == outcome.kind = "exc" /\ ~IsHTTPError(outcome.exc)
      err == IF outcome.kind = "exc" THEN outcome.exc ELSE prev_error
      ids == IF outcome.kind = "ids" THEN outcome.ids ELSE <<>>
      cut == SliceTo(ids, lim)
  IN IF escaped
       THEN [pc |-> "returned", idx |-> idx, ids |-> <<>>, err |-> prev_error,
             ret |-> Raise(outcome.exc)]
     ELSE IF ids # <<>>
       THEN IF cut # <<>>
              THEN [pc |-> "collect", idx |-> idx, ids |-> cut, err |-> err,
                    ret |-> NoRet]
              ELSE [pc |-> "returned", idx |-> idx, ids |-> cut, err |-> err,
                    ret |-> Return(EmptyResult)]
     ELSE IF idx < n_payloads
       THEN [pc |-> "search", idx |-> idx + 1, ids |-> <<>>, err |-> err,
             ret |-> NoRet]
     ELSE IF err # NULL
       THEN [pc |-> "returned", idx |-> idx, ids |-> <<>>, err |-> err,
             ret |-> Return(ErrorResult(err))]
     ELSE [pc |-> "returned", idx |-> idx, ids |-> <<>>, err |-> err,
           ret |-> Return(EmptyResult)]

\* how a request of _search_employee_ids ends on a response that is not
\* retried: the parsed identifiers, or the exception raised
AttemptOutcome(resp) ==
  IF resp.kind = "ok"
    THEN IF resp.body = Undecodable
           THEN [kind |-> "exc", exc |-> ValueError]
           ELSE [kind |-> "ids", ids |-> parse_ids(resp.body)]
    ELSE [kind |-> "exc", exc |-> HTTPError(resp)]

Continue(outcome) ==
  LET nxt == AfterAttempt(payload_idx, Len(search_payloads), limit,
                          last_error, outcome)
  IN /\ pc' = nxt.pc
     /\ payload_idx' = nxt.idx
     /\ employee_ids' = nxt.ids
     /\ last_error' = nxt.err
     /\ ret' = nxt.ret

\* _search_employee_ids: the first request, with the payload as given
SearchPost(resp) ==
  /\ pc = "search"
  /\ LET payload == search_payloads[payload_idx] IN
       /\ attempt' = <<[payload |-> payload, resp |-> resp]>>
       /\ network_calls' = network_calls + 1
       /\ IF ShouldRetry(resp, payload)
            THEN /\ pc' = "retry"
                 /\ UNCHANGED <<payload_idx, employee_ids, last_error, ret>>
            ELSE Continue(AttemptOutcome(resp))
  /\ UNCHANGED <<client, api_key, name, company, limit, search_payloads,
                 fetched, results, http_status, normVars, now>>

\* _search_employee_ids: the retry inside the except clause
RetryPost(resp) ==
  /\ pc = "retry"
  /\ LET payload == StrippedPayload(search_payloads[payload_idx]) IN
       /\ attempt' = Append(attempt, [payload |-> payload, resp |-> resp])
       /\ network_calls' = network_calls + 1
       /\ Continue(AttemptOutcome(resp))
  /\ UNCHANGED <<client, api_key, name, company, limit, search_payloads,
                 fetched, results, http_status, normVars, now>>

\* a collection loop that gives up what it has on a failed call
CollectedOrDropped(res, outcome) ==
  IF outcome.kind = "ok" THEN Append(res, outcome.body) ELSE <<>>

\* phase 2: what one collection call leaves in results
Collected(res, outcome) ==
  IF outcome.kind = "ok" THEN Append(res, outcome.body) ELSE res

\* phase 2: one collection call; after the last one search_person returns
CollectGet ==
  /\ pc = "collect"
  /\ \E outcome \in FetchOutcomes(employee_ids[Len(fetched) + 1]) :
     LET id == employee_ids[Len(fetched) + 1]
         res == Collected(results, outcome)
     IN /\ fetched' = Append(fetched, [id |-> id, outcome |-> outcome])
        /\ results' = res
        /\ network_calls' = network_calls + 1
        /\ IF Len(fetched) + 1 = Len(employee_ids)
             THEN /\ ret' = Return(PyDict([results |-> PyList(res)]))
                  /\ pc' = "returned"
             ELSE UNCHANGED <<ret, pc>>
  /\ UNCHANGED <<client, api_key, name, company, limit, search_payloads,
                 payload_idx, attempt, employee_ids, last_error, http_status,
                 normVars, now>>

\* the except clauses of the /api/search handler: the status answered for
\* an exception raised inside its try block
ExceptClauses(exc) ==
  IF exc.type = "ValueError" THEN PyInt(400) ELSE PyInt(500)

\* the status the handler answers: 200 on return, else by the except clauses
StatusFor(exc) == IF exc = NULL THEN PyInt(200) ELSE ExceptClauses(exc)

HTTPException(status_code) == [type |-> "HTTPException", status_code |-> status_code]

\* the /api/search handler up to its call of search_person; the client's
\* constructor raises ValueError without an API key
HandlerStart ==
  /\ pc = "handler"
  /\ IF api_key
       THEN pc' = "start" /\ UNCHANGED http_status
       ELSE pc' = "done" /\ http_status' = ExceptClauses(ValueError)
  /\ UNCHANGED <<client, api_key, name, company, limit, search_payloads,
                 payload_idx, attempt, employee_ids, last_error, fetched,
                 results, ret, network_calls, normVars, now>>

\* what the try block of the handler raises once search_person has ended,
\* or NULL when it reaches its return
RaisedByExtract(profiles) ==
  IF IsRaised(profiles) THEN [type |-> profiles.exc, status_code |-> NULL] ELSE NULL

RaisedInHandler(outcome, utcnow) ==
  IF outcome.kind = "raise" THEN outcome.exc
  ELSE IF "error" \in DOMAIN outcome.value.v
    THEN HTTPException(GetOr(outcome.value, "status_code", PyInt(500)))
  ELSE RaisedByExtract(extract_profiles(outcome.value, utcnow))

\* the /api/search handler after search_person has ended
HandlerFinish(utcnow) ==
  /\ pc = "returned"
  /\ client = "coresignal"
  /\ http_status' = StatusFor(RaisedInHandler(ret, utcnow))
  /\ now' = IF ret.kind = "return" /\ "error" \notin DOMAIN ret.value.v
              THEN utcnow ELSE now
  /\ pc' = "done"
  /\ UNCHANGED <<client, api_key, name, company, limit, search_payloads,
                 payload_idx, attempt, employee_ids, last_error, fetched,
                 results, ret, network_calls, normVars>>

\* ------------------------------------------------------------------------
\* ExaSearchClient.search_profiles
\* ------------------------------------------------------------------------
\* entry: trim the name, return at once on an empty one, else build the
\* request
ExaStart ==
  /\ pc = "exa_start"
  /\ IF strip(Or(name, Empty).v) = <<>>
       THEN /\ ret' = Return(PyList(<<>>))
            /\ pc' = "done"
            /\ UNCHANGED search_payloads
       ELSE /\ search_payloads' =
                 <<[query |-> _build_query(PyStr(strip(Or(name, Empty).v)), company),
                    num_results |-> limit]>>
            /\ pc' = "exa_post"
            /\ UNCHANGED ret
  /\ UNCHANGED <<client, api_key, name, company, limit, payload_idx, attempt,
                 employee_ids, last_error, fetched, results, network_calls,
                 http_status, normVars, now>>

\* what the try block leaves in results, or "failed" when it raised
ExaResults(resp) ==
  IF resp.kind # "ok" \/ resp.body = Undecodable \/ ~IsDict(resp.body)
    THEN [t |-> "failed"]
    ELSE GetOr(resp.body, "results", PyList(<<>>))

\* how search_profiles ends after the try block
ExaEnd(results_, fallback_name) ==
  IF results_.t = "failed" THEN Return(PyList(<<>>))
  ELSE IF IsRaised(_normalize_results(results_, fallback_name))
    THEN Raise([type |-> _normalize_results(results_, fallback_name).exc,
                status_code |-> NULL])
  ELSE Return(_normalize_results(results_, fallback_name))

\* the search request and everything after it
ExaPost(resp) ==
  /\ pc = "exa_post"
  /\ attempt' = <<[payload |-> search_payloads[1], resp |-> resp]>>
  /\ network_calls' = network_calls + 1
  /\ ret' = ExaEnd(ExaResults(resp), strip(Or(name, Empty).v))
  /\ pc' = "done"
  /\ UNCHANGED <<client, api_key, name, company, limit, search_payloads,
                 payload_idx, employee_ids, last_error, fetched, results,
                 http_status, normVars, now>>

Next ==
  \/ HandlerStart
  \/ SearchPersonStart
  \/ \E resp \in SearchResponses : SearchPost(resp)
  \/ \E resp \in SearchResponses : RetryPost(resp)
  \/ CollectGet
  \/ \E utcnow \in Nows : HandlerFinish(utcnow)
  \/ ExaStart
  \/ \E resp \in ExaResponses : ExaPost(resp)

Spec == Init /\ [][Next]_vars

\* ------------------------------------------------------------------------
\* Properties of the request flows
\* ------------------------------------------------------------------------
Is422(resp) == resp.kind = "status" /\ resp.code = 422
FiltersCompany(payload) ==
  "company_name" \in DOMAIN payload \/ "company" \in DOMAIN payload
SameMinusCompany(stripped, payload) ==
  /\ DOMAIN stripped = DOMAIN payload \ {"company_name", "company"}
  /\ \A k \in DOMAIN stripped : stripped[k] = payload[k]

\* C1: within one call of _search_employee_ids (attempt is the log of its
\* requests) at most two requests are sent; a second request is sent only
\* after a 422 answer to a payload with a company filter, and carries that
\* payload minus the company filter; such a 422 always leads to the retry;
\* a 422 answer to a payload without a company filter is not retried and
\* leaves the call as the HTTP status error the loop records.
C1_RetryOnceWithoutCompany ==
  client = "coresignal" =>
    /\ Len(attempt) <= 2
    /\ Len(attempt) = 2 =>
         /\ Is422(attempt[1].resp)
         /\ FiltersCompany(attempt[1].payload)
         /\ SameMinusCompany(attempt[2].payload, attempt[1].payload)
         /\ pc # "retry"
    /\ (Len(attempt) = 1 /\ Is422(attempt[1].resp)) =>
         IF FiltersCompany(attempt[1].payload)
           THEN pc = "retry"
           ELSE /\ pc # "retry"
                /\ last_error = [type |-> "HTTPStatusError", status_code |-> PyInt(422)]
    /\ pc = "retry" =>
         Len(attempt) = 1 /\ Is422(attempt[1].resp) /\ FiltersCompany(attempt[1].payload)

C1_Witness ==
  /\ Len(attempt) = 2
  /\ attempt[2].resp.kind = "ok"
  /\ employee_ids # <<>>

OkFetches == SelectSeq(fetched, LAMBDA f : f.outcome.kind = "ok")
FetchedBodies == [i \in 1 .. Len(OkFetches) |-> OkFetches[i].outcome.body]

\* C2: in phase 2 the identifiers are fetched in order, a failed fetch does
\* not stop the loop, the records kept are exactly the bodies of the
\* successful fetches in identifier order, and once every identifier has
\* been fetched search_person returns them in a mapping without an error.
C2_PartialSuccess ==
  (client = "coresignal" /\ fetched # <<>>) =>
    /\ Len(fetched) <= Len(employee_ids)
    /\ \A i \in 1 .. Len(fetched) : fetched[i].id = employee_ids[i]
    /\ results = FetchedBodies
    /\ Len(results) = Len(fetched) - Cardinality({i \in 1 .. Len(fetched) : fetched[i].outcome.kind # "ok"})
    /\ IF Len(fetched) < Len(employee_ids)
         THEN pc = "collect" /\ ret = NoRet
         ELSE /\ pc \in {"returned", "done"}
              /\ ret = Return(PyDict([results |-> PyList(FetchedBodies)]))

C2_Witness ==
  /\ pc = "returned"
  /\ Len(fetched) = 2
  /\ fetched[1].outcome.kind = "transport"
  /\ fetched[2].outcome.kind = "ok"
  /\ Len(ret.value.v.results.v) = 1

\* C3: search_person never ends by raising, and a result that carries an
\* error carries exactly error, status_code and an empty results list.
C3_NeverRaises ==
  client = "coresignal" =>
    /\ ret.kind # "raise"
    /\ (ret.kind = "return" /\ "error" \in DOMAIN ret.value.v) =>
         /\ DOMAIN ret.value.v = {"error", "status_code", "results"}
         /\ ret.value.v.results = PyList(<<>>)

Blank(s) == \A i \in 1 .. Len(s) : s[i] = SPACE

\* C4: when the searched name is empty or only whitespace, no network call
\* is ever issued in the request, search_person returns the mapping with an
\* empty results list and search_profiles returns the empty list.
C4_BlankNameNoNetwork ==
  Blank(Or(name, Empty).v) =>
    /\ network_calls = 0
    /\ pc \notin {"search", "retry", "collect", "exa_post"}
    /\ (client = "coresignal" /\ pc \in {"returned", "done"} /\ api_key) =>
         ret = Return(PyDict([results |-> PyList(<<>>)]))
    /\ (client = "exa" /\ pc = "done") => ret = Return(PyList(<<>>))

C4_Witness ==
  /\ client = "coresignal"
  /\ name = PyStr(<<SPACE, SPACE>>)
  /\ pc = "returned"
  /\ ret = Return(PyDict([results |-> PyList(<<>>)]))
  /\ network_calls = 0

ClientError(code) == code.t = "int" /\ code.v \in 400 .. 499
ServerError(code) == code.t = "int" /\ code.v \in 500 .. 599

\* C8: when search_person has returned a mapping with an error, the status
\* the handler answers is a client error if the mapping's status_code is a
\* client error, and a server error if that status_code is a server error
\* or null.
C8_StatusFollowsResult ==
  (client = "coresignal" /\ pc = "done" /\ ret.kind = "return"
     /\ "error" \in DOMAIN ret.value.v) =>
    IF ClientError(ret.value.v.status_code)
      THEN ClientError(http_status)
      ELSE ServerError(http_status)

WellTyped(hit) ==
  /\ IsDict(hit)
  /\ Get(hit, "title").t \in {"null", "str"}
  /\ Get(hit, "url").t \in {"null", "str"}

\* a response of the secondary vendor that counts as a failure
ExaFailure(resp) ==
  \/ resp.kind # "ok"
  \/ resp.body = Undecodable
  \/ ~IsDict(resp.body)
  \/ "results" \notin DOMAIN resp.body.v
  \/ ~IsList(resp.body.v.results)
  \/ \E i \in 1 .. Len(resp.body.v.results.v) : ~WellTyped(resp.body.v.results.v[i])

\* C10: search_profiles never ends by raising, and on a failure (transport
\* error, error status, undecodable body, results or hits absent, null or
\* wrongly typed) it returns the empty list.
C10_FailureYieldsEmpty ==
  (client = "exa" /\ pc = "done") =>
    /\ ret.kind = "return"
    /\ (attempt # <<>> /\ ExaFailure(attempt[1].resp)) => ret.value = PyList(<<>>)

\* the last request of the latest attempt was answered with a decodable 2xx
\* body, so the attempt completed without an error
CompletedWithoutError ==
  /\ attempt # <<>>
  /\ attempt[Len(attempt)].resp.kind = "ok"
  /\ attempt[Len(attempt)].resp.body # Undecodable

\* C11: the payloads are tried in order, exact name first and title keyword
\* second; once search_person has returned, its result carries an error only
\* if the attempts failed, the error then being the last one recorded, and
\* carries none when the latest attempt completed without error, even with
\* an empty identifier list.
C11_ErrorOnlyWhenAllFail ==
  (client = "coresignal" /\ attempt # <<>>) =>
    /\ payload_idx \in 1 .. Len(search_payloads)
    /\ IF pc = "search"
         THEN payload_idx > 1 /\ attempt[1].payload = search_payloads[payload_idx - 1]
         ELSE attempt[1].payload = search_payloads[payload_idx]
    /\ "full_name" \in DOMAIN search_payloads[1]
    /\ "title" \in DOMAIN search_payloads[2]
    /\ (pc \in {"returned", "done"} /\ ret.kind = "return") =>
         /\ CompletedWithoutError => "error" \notin DOMAIN ret.value.v
         /\ "error" \in DOMAIN ret.value.v =>
              /\ last_error # NULL
              /\ ret.value.v.status_code = last_error.status_code

\* the identifier list phase 1 ended with, when it is not empty
Phase1Ids == attempt[Len(attempt)].resp.body.v

FoundIds ==
  /\ CompletedWithoutError
  /\ IsList(attempt[Len(attempt)].resp.body)
  /\ Phase1Ids # <<>>

\* the first min(k, n) elements of ids, none when k <= 0
FirstIds(ids, k) ==
  IF k <= 0 THEN <<>>
  ELSE IF k < Len(ids) THEN [i \in 1 .. k |-> ids[i]]
  ELSE ids

\* C12: whatever the limit, the identifiers fetched in phase 2 are the
\* first min(limit, n) of the n identifiers phase 1 found, none when the
\* limit is not positive, so neither the collection calls nor the returned
\* results outnumber the limit.
C12_FetchedWithinLimit ==
  (client = "coresignal" /\ FoundIds) =>
    /\ employee_ids = FirstIds(Phase1Ids, limit)
    /\ \A i \in 1 .. Len(fetched) : fetched[i].id = FirstIds(Phase1Ids, limit)[i]
    /\ Len(fetched) <= Len(FirstIds(Phase1Ids, limit))
    /\ Len(results) <= Len(FirstIds(Phase1Ids, limit))

\* ------------------------------------------------------------------------
\* _compute_experience_months applied to bounded lists of experience spans
\* ------------------------------------------------------------------------
SpanStarts ==
  {NULL, Garbage, MonthText(2020, 1), MonthText(2020, 4), DayText(2020, 6, 15),
   YearText(2021)}
SpanEnds ==
  {NULL, Present, MonthText(2020, 6), MonthText(2020, 9), DayText(2020, 6, 10)}

Spans ==
  {PyDict([date_from |-> f, date_to |-> e]) : f \in SpanStarts, e \in SpanEnds}
    \cup {PyStr(<<"x">>)}

InitMonths ==
  /\ ReqIdle
  /\ input \in SeqsUpTo(Spans, MaxSpans)
  /\ now = NULL
  /\ output = NULL

ComputeMonths(utcnow) ==
  /\ output = NULL
  /\ now' = utcnow
  /\ output' = PyInt(_compute_experience_months(input, utcnow))
  /\ UNCHANGED <<reqVars, input>>

NextMonths == \E utcnow \in Nows : ComputeMonths(utcnow)

SpecMonths == InitMonths /\ [][NextMonths]_vars

\* the span an entry stands for: its parsed start, and its parsed end with
\* a missing end read as now; NULL when the entry does not count
SpanOf(exp) ==
  IF ~IsDict(exp) THEN NULL
  ELSE LET start == _parse_date(Get(exp, "date_from"))
           parsed_end == _parse_date(Get(exp, "date_to"))
           end == IF parsed_end = NULL THEN now ELSE parsed_end
       IN IF start = NULL \/ DateLt(end, start) THEN NULL
          ELSE [t |-> "span", from |-> start.y * 12 + start.m,
                to |-> end.y * 12 + end.m]

CountedSpans ==
  LET spans == [i \in DOMAIN input |-> SpanOf(input[i])]
  IN SelectSeq(spans, LAMBDA sp : sp # NULL)

CoveredMonths(spans) ==
  {k \in 2020 * 12 + 1 .. 2021 * 12 + 12 :
     \E i \in DOMAIN spans : spans[i].from <= k /\ k <= spans[i].to}

RECURSIVE SumOfLengths(_)
SumOfLengths(spans) ==
  IF spans = <<>> THEN 0
  ELSE Head(spans).to - Head(spans).from + 1 + SumOfLengths(Tail(spans))

EntryTitles == {NULL, PyStr(<<"e">>), PyStr(<<"E", SPACE>>)}
EntryCompanies == {NULL, PyStr(<<"c">>)}
EntryStarts == {NULL, YearText(1), MonthText(2020, 1), YearText(2021)}
EntryEnds ==
  {[date_to |-> NULL, current |-> NULL],
   [date_to |-> MonthText(2021, 6), current |-> NULL],
   [date_to |-> MonthText(2021, 6), current |-> PyBool(TRUE)]}

\* the entries that name a company carry no dates, to keep the lists few
Entries ==
  {PyDict([title |-> ti, company_name |-> NULL, date_from |-> f,
           date_to |-> e.date_to, current |-> e.current, location |-> Empty]) :
     ti \in EntryTitles, f \in EntryStarts, e \in EntryEnds}
    \cup {PyDict([title |-> ti, company_name |-> co, date_from |-> NULL,
                  date_to |-> NULL, current |-> NULL, location |-> Empty]) :
            ti \in EntryTitles, co \in EntryCompanies}
    \cup {PyStr(<<"x">>)}

\* every entry's location names its place in the list
LocationAt(i) == PyStr(<<ToString(i)>>)
Located(entries) ==
  [i \in DOMAIN entries |->
     IF IsDict(entries[i])
       THEN PyDict([entries[i].v EXCEPT !.location = LocationAt(i)])
       ELSE entries[i]]

InitPositions ==
  /\ ReqIdle
  /\ input \in {Located(entries) : entries \in SeqsUpTo(Entries, MaxEntries)}
  /\ now = NULL
  /\ output = NULL

FormatPositions ==
  /\ output = NULL
  /\ output' = _format_positions(input)
  /\ UNCHANGED <<reqVars, input, now>>

NextPositions == FormatPositions

SpecPositions == InitPositions /\ [][NextPositions]_vars

\* (title, company, period) of a returned entry, trimmed and lower-cased
Triple(p) == <<lower(strip(p.title.v)), lower(strip(p.company.v)),
               lower(strip(p.period.v))>>

\* the same triple of an input entry, from the fields as the formatter reads them
InputTriple(exp) == Triple(PositionOf(exp))

\* the place in the input of a returned entry
PlaceOf(p) == CHOOSE i \in DOMAIN input : LocationAt(i) = p.location

\* C6: no two returned entries have equal (title, company, period) triples
\* after trimming and lower-casing, and of the input entries with one triple
\* the first is the one returned
C6_NoDuplicateTriples ==
  output # NULL =>
    LET triples == [k \in DOMAIN output.v |-> Triple(output.v[k])]
    IN /\ \A i, j \in DOMAIN triples : i # j => triples[i] # triples[j]
       /\ \A i \in DOMAIN input :
            IsDict(input[i]) =>
              \E k \in DOMAIN triples :
                /\ triples[k] = InputTriple(input[i])
                /\ PlaceOf(output.v[k]) <= i

\* C6 witness: a later entry equal to an earlier one up to case and blanks
\* has been dropped
C6_Witness ==
  /\ output # NULL
  /\ Len(input) = 2 /\ IsDict(input[1]) /\ IsDict(input[2])
  /\ input[1].v.title = PyStr(<<"E", SPACE>>)
  /\ input[2].v.title = PyStr(<<"e">>)
  /\ Len(output.v) = 1
  /\ output.v[1].location = LocationAt(1)

\* the parsed start date of a returned entry
StartOf(p) == _parse_date(Get(input[PlaceOf(p)], "date_from"))

\* C7: the returned list is in descending order of parsed start date, every
\* entry without a parseable start comes after every entry with one, and no
\* returned entry carries the helper field
C7_SortedUndatedLast ==
  output # NULL =>
    /\ \A i, j \in DOMAIN output.v :
         i < j =>
           LET a == StartOf(output.v[i])
               b == StartOf(output.v[j])
           IN /\ (a # NULL /\ b # NULL) => ~DateLt(a, b)
              /\ ~(a = NULL /\ b # NULL)
    /\ \A i \in DOMAIN output.v : "_start_dt" \notin DOMAIN output.v[i]

\* ------------------------------------------------------------------------
\* _format_positions applied to one entry, over the dates an entry may hold
\* ------------------------------------------------------------------------
\* entries whose start, end and current flag are absent, blank, unparseable,
\* of the wrong type or well-formed
PeriodEntries ==
  {PyDict([title |-> PyStr(<<"e">>), date_from |-> f, date_to |-> e,
           current |-> c, location |-> LocationAt(1)]) :
     f \in {NULL, Empty, Garbage, PyInt(2020), YearText(2021), MonthText(2020, 1),
            DayText(2020, 6, 15)},
     e \in {NULL, Empty, Present, PyStr(<<"present">>), Garbage, PyInt(2021),
            MonthText(2021, 6), DayText(2021, 12, 31)},
     c \in {NULL, PyBool(TRUE), PyBool(FALSE)}}

InitPeriods ==
  /\ ReqIdle
  /\ input \in {<<entry>> : entry \in PeriodEntries}
  /\ now = NULL
  /\ output = NULL

SpecPeriods == InitPeriods /\ [][NextPositions]_vars

\* "<Mon YYYY>" of a parsed date
MonthYear(dt) == <<MonthAbbr[dt.m], SPACE, ToString(dt.y)>>

\* the entry says it is current
SaysCurrent(exp) ==
  \/ Get(exp, "current") = PyBool(TRUE)
  \/ Get(exp, "date_to") \in {NULL, Empty}
  \/ (IsStr(Get(exp, "date_to")) /\ lower(Get(exp, "date_to").v) = <<"present">>)

\* what the end side of an entry may contribute: its month and year when it
\* parses, "Present" when the entry is current, nothing when it does not
\* parse and the entry is not current (or has no parseable start either)
EndSides(start, end, current) ==
  (IF end # NULL THEN {MonthYear(end)} ELSE {})
    \cup (IF current THEN {<<"Present">>} ELSE {})
    \cup (IF end = NULL /\ (~current \/ start = NULL) THEN {<<>>} ELSE {})

Sides(start_side, end_side) ==
  IF start_side # <<>> /\ end_side # <<>>
    THEN start_side \o <<SPACE, "-", SPACE>> \o end_side
    ELSE start_side \o end_side

\* C13: the period of a returned position holds only the sides whose date
\* parses: "<Mon YYYY>" for a start that parses, "<Mon YYYY>" for an end
\* that parses or "Present" for a current entry, joined by " - " when both
\* are there, and the empty string when neither the start nor the end
\* parses.
C13_PeriodOnlyParsedSides ==
  (output # NULL /\ Len(input) = 1 /\ IsDict(input[1]) /\ Len(output.v) = 1) =>
    LET start == _parse_date(Get(input[1], "date_from"))
        end == _parse_date(Get(input[1], "date_to"))
        start_side == IF start # NULL THEN MonthYear(start) ELSE <<>>
    IN output.v[1].period.v \in
         {Sides(start_side, end_side) :
            end_side \in EndSides(start, end, SaysCurrent(input[1]))}

\* ------------------------------------------------------------------------
\* extract_profiles applied to bounded lists of raw vendor records
\* ------------------------------------------------------------------------
\* records with fields absent, null or of the wrong type
RawRecords ==
  {GoodRecord,
   PyDict(<<>>),
   PyDict([full_name |-> NULL, headline |-> NULL, experience |-> NULL,
           skills |-> NULL, education |-> NULL, profile_url |-> NULL,
           summary |-> NULL, location |-> NULL]),
   PyDict([experience |-> PyStr(<<"x">>), skills |-> PyInt(3),
           education |-> PyInt(3), summary |-> PyInt(3)]),
   PyDict([experience |-> PyList(<<PyStr(<<"x">>)>>)]),
   PyDict([experience |-> PyList(<<Job, PyStr(<<"x">>), NULL>>)]),
   PyDict([experience |-> PyList(<<PyDict([title |-> PyInt(5)])>>)]),
   PyDict([experience |-> PyList(<<PyDict([date_from |-> PyInt(2020),
                                           date_to |-> Garbage])>>)]),
   PyDict([profile_url |-> PyInt(5)]),
   PyDict([url |-> PyStr(<<"/", "linkedin.com/in/a">>),
           picture |-> PyDict([src |-> PyStr(<<"https://", "img">>)])]),
   PyDict([skills |-> PyList(<<NULL, PyInt(3)>>),
           education |-> PyList(<<NULL, PyInt(3), PyDict(<<>>)>>),
           avatar |-> PyInt(7)])}

RawDatas ==
  {PyDict([results |-> PyList(rs)]) : rs \in SeqsUpTo(RawRecords, MaxRecords)}
    \cup {PyDict([error |-> PyStr(<<"e">>), status_code |-> NULL,
                  results |-> PyList(<<>>)])}

InitExtract ==
  /\ ReqIdle
  /\ input \in RawDatas
  /\ now = NULL
  /\ output = NULL

ExtractProfiles(utcnow) ==
  /\ output = NULL
  /\ now' = utcnow
  /\ output' = extract_profiles(input, utcnow)
  /\ UNCHANGED <<reqVars, input>>

NextExtract == \E utcnow \in Nows : ExtractProfiles(utcnow)

SpecExtract == InitExtract /\ [][NextExtract]_vars

\* C9: whatever the raw records hold, extract_profiles returns, with one
\* profile per raw record
C9_NeverFatal ==
  (output # NULL /\ "error" \notin DOMAIN input.v) =>
    /\ ~IsRaised(output)
    /\ Len(output.v) = Len(GetOr(input, "results", PyList(<<>>)).v)

====
